---- MODULE Spec2Model ----
\* SpriteCleaner: the Background Remover CLI (remove_background.py) and the
\* Comparison Builder (comparison/compare_images.py), as one state machine.
\* A behaviour is one run of one of the two programs on one file system.
EXTENDS Integers, Sequences, FiniteSets, TLC

\* ---------------------------------------------------------------- bounds
\* Largest number of *.png entries the input directory holds at start.
MaxFiles == 2

\* ------------------------------------------------------- names and paths
\* A file name is a stem (a sequence of string pieces, so that a suffix can
\* be appended to it) and an extension; a path is a sequence of names.
Name(stem, ext) == [stem |-> stem, ext |-> ext]

\* pathlib.PurePath.stem / .suffix of the last component.
Stem(p) == p[Len(p)].stem
Suffix(p) == p[Len(p)].ext

\* str.lower() on the extensions that occur.
Lower(ext) == IF ext = ".PNG" THEN ".png" ELSE IF ext = ".JPG" THEN ".jpg" ELSE ext

\* f"{stem}_no_bg.png"
NoBgName(stem) == Name(Append(stem, "_no_bg"), ".png")

\* pathlib's dir / name
Join(dir, name) == Append(dir, name)

Parent(p) == SubSeq(p, 1, Len(p) - 1)

\* ------------------------------------------------------------ file system
\* fs maps each existing path to its entry; the working directory is <<>>.
FileEntry(data) == [kind |-> "file", data |-> data]
DirEntry == [kind |-> "dir", data |-> <<>>]
OtherEntry == [kind |-> "other", data |-> <<>>]

Exists(f, p) == p = <<>> \/ p \in DOMAIN f
IsFile(f, p) == p \in DOMAIN f /\ f[p].kind = "file"
IsDir(f, p) == p = <<>> \/ (p \in DOMAIN f /\ f[p].kind = "dir")

Prefixes(p) == {SubSeq(p, 1, i) : i \in 1..Len(p)}

\* Path.mkdir(parents=True, exist_ok=True): raises when a component exists
\* and is not a directory.
MkdirBlocked(f, p) == \E q \in Prefixes(p) : q \in DOMAIN f /\ f[q].kind # "dir"
MkdirP(f, p) ==
    [q \in DOMAIN f \cup Prefixes(p) |-> IF q \in DOMAIN f THEN f[q] ELSE DirEntry]

\* Path.glob('*.png'): the entries directly under dir whose name ends in
\* ".png" (case-sensitive matching, as on POSIX), whatever their kind.
GlobPng(f, dir) ==
    {p \in DOMAIN f : Len(p) = Len(dir) + 1 /\ Parent(p) = dir /\ Suffix(p) = ".png"}

\* open(p, 'rb') can succeed only on an existing regular file.
CanRead(f, p) == IsFile(f, p)
\* open(p, 'wb') can succeed only in an existing directory, not on a directory.
CanOpenForWrite(f, p) ==
    /\ Len(p) > 0
    /\ IsDir(f, Parent(p))
    /\ (p \in DOMAIN f => f[p].kind = "file")

\* open(p, 'wb') creates or truncates p; write(data) then fills it.
Truncate(f, p) == [q \in DOMAIN f \cup {p} |-> IF q = p THEN FileEntry(<<>>) ELSE f[q]]
WriteBytes(f, p, data) ==
    [q \in DOMAIN f \cup {p} |-> IF q = p THEN FileEntry(data) ELSE f[q]]

\* ------------------------------------------------------------- inference
\* rembg.remove(data, session): the bytes produced record the model that ran.
Remove(data, m) == <<m>> \o data

\* ---------------------------------------------------------- CLI arguments
Choices == {"u2net", "u2netp", "u2net_human_seg", "isnet-general-use",
            "birefnet-general", "birefnet-general-lite", "silueta"}
DefaultModel == "u2net"

\* Values of -i, -o and -m tried.
D1 == Name(<<"d1">>, "")
D2 == Name(<<"d2">>, "")
DEV == Name(<<"dev">>, "")
A_PNG == Name(<<"a">>, ".png")
B_PNG == Name(<<"b">>, ".png")
OUT_PNG == Name(<<"out">>, ".png")
PHOTO_JPG == Name(<<"photo">>, ".jpg")
C_UPPER_PNG == Name(<<"c">>, ".PNG")

\* Names a *.png entry of d1 may have at start, and the entries d1 always has.
PngCandidates == {A_PNG, B_PNG, NoBgName(<<"a">>), NoBgName(<<"b">>)}
OtherEntries == {PHOTO_JPG, C_UPPER_PNG}

InputArgs == {<<D1>>, <<D2>>, <<DEV>>, <<D1, A_PNG>>, <<D1, NoBgName(<<"a">>)>>,
              <<D1, PHOTO_JPG>>, <<D1, C_UPPER_PNG>>}
OutputArgs == {<<D1>>, <<D2>>, <<D1, A_PNG>>, <<D2, OUT_PNG>>}
ModelArgs == {"u2net", "u2netp", "resnet"}
ArgSets == [input : InputArgs, output : OutputArgs, model : ModelArgs]
NoArgs == [input |-> <<>>, output |-> <<>>, model |-> ""]

\* File systems a Background Remover run starts on: d1 is a directory holding
\* up to MaxFiles *.png files, a .jpg and a .PNG; d2 is an empty directory,
\* a regular file, or absent; dev exists and is neither file nor directory.
RawData == <<"raw">>
RemoverFs(pngs, d2kind) ==
    LET files == {<<D1, n>> : n \in pngs \cup OtherEntries}
        dom == {<<D1>>, <<DEV>>} \cup files
                 \cup (IF d2kind = "absent" THEN {} ELSE {<<D2>>})
    IN  [p \in dom |->
            IF p \in files THEN FileEntry(RawData)
            ELSE IF p = <<D1>> THEN DirEntry
            ELSE IF p = <<DEV>> THEN OtherEntry
            ELSE IF d2kind = "dir" THEN DirEntry ELSE FileEntry(RawData)]
RemoverFileSystems ==
    {RemoverFs(pngs, k) :
        pngs \in {s \in SUBSET PngCandidates : Cardinality(s) <= MaxFiles},
        k \in {"dir", "file", "absent"}}

\* The orders in which a directory listing may return a set of paths.
Orders(S) ==
    LET n == Cardinality(S)
    IN  {s \in [1..n -> S] : \A i, j \in 1..n : s[i] = s[j] => i = j}

\* ------------------------------------------------------------------ state
VARIABLES
    program,        \* which of the two tools this run is
    fs,             \* the file system
    fs0,            \* the file system at the start of the run
    args,           \* parsed command line of the Background Remover
    pc,             \* position of the run
    exit_code,      \* process exit status, -1 while running
    uncaught,       \* call whose exception left main uncaught, "" if none
    output_path,    \* resolved output file (file mode) or folder (batch)
    png_files,      \* list(input_path.glob('*.png'))
    idx,            \* number of loop iterations completed
    success_count,
    fail_count,
    session,        \* model of the session new_session created, "" if none
    attempted,      \* input files whose try block was entered, in order
    outcomes,       \* how each attempt ended
    reads,          \* paths whose bytes were read as input
    inferences,     \* [src, model]: the call to remove() made for src
    written,        \* [src, dst]: output files opened for writing
    stdout_summary, \* the Success/Failed lines printed, if any
    font,           \* font the grid draws with
    canvas,         \* size of the grid canvas, 0 by 0 before it is created
    y_pos,          \* top of the next grid row
    rows,           \* rows drawn on the canvas, in drawing order
    grid_file,      \* what canvas.save wrote, if anything
    template_idx,   \* templates the current loop has gone through
    html_content,   \* the HTML document being built, as a list of elements
    html_file       \* what was written to html_output, if anything

remVars == <<args, exit_code, uncaught, output_path, png_files, idx,
             success_count, fail_count, session, attempted, outcomes, reads,
             inferences, written, stdout_summary>>
cmpVars == <<font, canvas, y_pos, rows, grid_file, template_idx, html_content,
             html_file>>
vars == <<program, fs, fs0, pc, remVars, cmpVars>>

\* ------------------------------------------------- per-file processing
\* How reading, inference and writing of one file can end.
Outcomes == {"ok", "read_raises", "remove_raises", "open_raises", "write_raises"}

Possible(f, src, dst, o) ==
    \/ o = "read_raises"
    \/ /\ CanRead(f, src)
       /\ \/ o \in {"remove_raises", "open_raises"}
          \/ o \in {"ok", "write_raises"} /\ CanOpenForWrite(f, dst)

\* read bytes; remove(); open(dst, 'wb'); write.
FsAfter(f, src, dst, m, o) ==
    IF o = "ok" THEN WriteBytes(f, dst, Remove(f[src].data, m))
    ELSE IF o = "write_raises" THEN Truncate(f, dst)
    ELSE f

ReadsAfter(r, src, o) == IF o = "read_raises" THEN r ELSE r \cup {src}
InferencesAfter(inf, src, m, o) ==
    IF o = "read_raises" THEN inf ELSE Append(inf, [src |-> src, model |-> m])
WrittenAfter(w, src, dst, o) ==
    IF o \in {"ok", "write_raises"} THEN Append(w, [src |-> src, dst |-> dst]) ELSE w

\* ---------------------------------------------------- remove_background.py
\* The model remove() runs with in single-file mode: remove(input_data) is
\* called without a session, so the library's default model is used.
FileModeModel(model) == DefaultModel
\* session = new_session(model)
SessionModel(model) == model

\* Faulty variant: the output keeps the input's own file name.
OutputFile_KeepsName(folder, png_file) == Join(folder, png_file[Len(png_file)])
\* output_path / f"{png_file.stem}_no_bg.png"
OutputFile(folder, png_file) == Join(folder, NoBgName(Stem(png_file)))

\* main: if output_path.is_dir(): output_path = output_path / f"{stem}_no_bg.png"
ResolveOutput(f, input, output) ==
    IF IsDir(f, output) THEN Join(output, NoBgName(Stem(input))) ELSE output

\* Faulty variant: only inference failures are counted as failures.
CountFail_InferenceOnly(c, o) == IF o = "remove_raises" THEN c + 1 ELSE c
\* success_count += 1 in the try body, fail_count += 1 in the handler.
CountSuccess(c, o) == IF o = "ok" THEN c + 1 ELSE c
CountFail(c, o) == IF o = "ok" THEN c ELSE c + 1

\* Faulty variant: no handler, a failing file ends the loop.
PcAfterIteration_Aborts(o) == IF o = "ok" THEN "loop" ELSE "exit"
\* except Exception: the handler prints, counts, and the loop goes on.
PcAfterIteration(o) == "loop"

\* Faulty variant: the extension is compared without lower().
Validate_CaseSensitive(f, a) ==
    IF a.model \notin Choices THEN "usage"
    ELSE IF ~Exists(f, a.input) THEN "missing"
    ELSE IF IsFile(f, a.input)
         THEN IF Suffix(a.input) # ".png" THEN "not_png" ELSE "file"
    ELSE IF IsDir(f, a.input) THEN "folder"
    ELSE "neither"
\* main's validation of the command line and of the input path.
Validate(f, a) ==
    IF a.model \notin Choices THEN "usage"
    ELSE IF ~Exists(f, a.input) THEN "missing"
    ELSE IF IsFile(f, a.input)
         THEN IF Lower(Suffix(a.input)) # ".png" THEN "not_png" ELSE "file"
    ELSE IF IsDir(f, a.input) THEN "folder"
    ELSE "neither"

ExitStatus(v) == IF v = "usage" THEN 2 ELSE 1

main ==
    /\ program = "remove_background"
    /\ pc = "main"
    /\ LET v == Validate(fs, args)
       IN  IF v = "file"
           THEN /\ pc' = "file"
                /\ output_path' = ResolveOutput(fs, args.input, args.output)
                /\ UNCHANGED exit_code
           ELSE IF v = "folder"
           THEN /\ pc' = "folder"
                /\ output_path' = args.output
                /\ UNCHANGED exit_code
           ELSE /\ pc' = "exit"
                /\ exit_code' = ExitStatus(v)
                /\ UNCHANGED output_path
    /\ UNCHANGED cmpVars
    /\ UNCHANGED <<program, fs, fs0, args, uncaught, png_files, idx,
                   success_count, fail_count, session, attempted, outcomes,
                   reads, inferences, written, stdout_summary>>

\* remove_background_from_file, and main's return after it.
remove_background_from_file ==
    /\ program = "remove_background"
    /\ pc = "file"
    /\ \E o \in Outcomes :
        LET src == args.input
            dst == output_path
            m == FileModeModel(args.model)
        IN  /\ Possible(fs, src, dst, o)
            /\ fs' = FsAfter(fs, src, dst, m, o)
            /\ attempted' = Append(attempted, src)
            /\ outcomes' = Append(outcomes, o)
            /\ reads' = ReadsAfter(reads, src, o)
            /\ inferences' = InferencesAfter(inferences, src, m, o)
            /\ written' = WrittenAfter(written, src, dst, o)
    /\ pc' = "exit"
    /\ exit_code' = 0
    /\ UNCHANGED cmpVars
    /\ UNCHANGED <<program, fs0, args, uncaught, output_path, png_files, idx,
                   success_count, fail_count, session, stdout_summary>>

\* remove_background_from_folder up to the loop: mkdir, glob, the empty
\* check, new_session, the counters.
folder_setup ==
    /\ program = "remove_background"
    /\ pc = "folder"
    /\ \/ \* mkdir raises: the exception leaves main
          /\ MkdirBlocked(fs, output_path) \/ ~Exists(fs, output_path)
          /\ uncaught' = "mkdir"
          /\ pc' = "exit"
          /\ exit_code' = 1
          /\ UNCHANGED <<fs, png_files, session>>
       \/ /\ ~MkdirBlocked(fs, output_path)
          /\ fs' = MkdirP(fs, output_path)
          /\ LET found == GlobPng(fs', args.input)
             IN  IF found = {}
                 THEN \* "No PNG files found": return
                      /\ pc' = "exit"
                      /\ exit_code' = 0
                      /\ UNCHANGED <<png_files, session, uncaught>>
                 ELSE /\ png_files' \in Orders(found)
                      /\ \/ /\ session' = SessionModel(args.model)
                            /\ pc' = "loop"
                            /\ UNCHANGED <<exit_code, uncaught>>
                         \/ \* new_session raises: the exception leaves main
                            /\ uncaught' = "new_session"
                            /\ pc' = "exit"
                            /\ exit_code' = 1
                            /\ UNCHANGED session
    /\ UNCHANGED cmpVars
    /\ UNCHANGED <<program, fs0, args, output_path, idx, success_count,
                   fail_count, attempted, outcomes, reads, inferences,
                   written, stdout_summary>>

\* One iteration of the for loop over png_files.
folder_iteration ==
    /\ program = "remove_background"
    /\ pc = "loop"
    /\ idx < Len(png_files)
    /\ \E o \in Outcomes :
        LET png_file == png_files[idx + 1]
            output_file == OutputFile(output_path, png_file)
        IN  /\ Possible(fs, png_file, output_file, o)
            /\ fs' = FsAfter(fs, png_file, output_file, session, o)
            /\ attempted' = Append(attempted, png_file)
            /\ outcomes' = Append(outcomes, o)
            /\ reads' = ReadsAfter(reads, png_file, o)
            /\ inferences' = InferencesAfter(inferences, png_file, session, o)
            /\ written' = WrittenAfter(written, png_file, output_file, o)
            /\ success_count' = CountSuccess(success_count, o)
            /\ fail_count' = CountFail(fail_count, o)
            /\ pc' = PcAfterIteration(o)
    /\ idx' = idx + 1
    /\ UNCHANGED cmpVars
    /\ UNCHANGED <<program, fs0, args, exit_code, uncaught, output_path,
                   png_files, session, stdout_summary>>

\* The summary after the loop, and main's return.
folder_summary ==
    /\ program = "remove_background"
    /\ pc = "loop"
    /\ idx = Len(png_files)
    /\ stdout_summary' = <<[success |-> success_count, failed |-> fail_count]>>
    /\ pc' = "exit"
    /\ exit_code' = 0
    /\ UNCHANGED cmpVars
    /\ UNCHANGED <<program, fs, fs0, args, uncaught, output_path, png_files,
                   idx, success_count, fail_count, session, attempted,
                   outcomes, reads, inferences, written>>

\* ------------------------------------------- comparison/compare_images.py
INPUT == Name(<<"input">>, "")
OUTPUT == Name(<<"output">>, "")
template_images ==
    << Name(<<"black_cocker_spaniel_1">>, ".png"),
       Name(<<"border_collie_1">>, ".png"),
       Name(<<"german_sheperd_1">>, ".png"),
       Name(<<"golden_retriever_1">>, ".png"),
       Name(<<"siberian_husky_1">>, ".png") >>
NumTemplates == Len(template_images)

\* Path(template_name).stem.replace('_', ' ').title() on the five names.
Label(template_name) ==
    LET s == template_name.stem
    IN  IF s = <<"black_cocker_spaniel_1">> THEN <<"Black Cocker Spaniel 1">>
        ELSE IF s = <<"border_collie_1">> THEN <<"Border Collie 1">>
        ELSE IF s = <<"german_sheperd_1">> THEN <<"German Sheperd 1">>
        ELSE IF s = <<"golden_retriever_1">> THEN <<"Golden Retriever 1">>
        ELSE <<"Siberian Husky 1">>

\* File systems a Comparison Builder run starts on: input/ holds any of the
\* five originals, output/ any of the five processed images (decodable PNGs).
CompareFs(ins, outs) ==
    LET originals == {<<INPUT, template_images[i]>> : i \in ins}
        processed == {<<OUTPUT, NoBgName(template_images[i].stem)>> : i \in outs}
    IN  [p \in {<<INPUT>>, <<OUTPUT>>} \cup originals \cup processed |->
            IF p \in originals THEN FileEntry(RawData)
            ELSE IF p \in processed THEN FileEntry(Remove(RawData, DefaultModel))
            ELSE DirEntry]
CompareFileSystems ==
    {CompareFs(ins, outs) : ins \in SUBSET (1..NumTemplates),
                            outs \in SUBSET (1..NumTemplates)}

\* Settings of create_comparison_grid.
img_width == 300
img_height == 300
padding == 20
title_height == 60
label_height == 40
label_offset == 10

\* Faulty variant: the padding between the two columns is left out.
grid_width_TwoPaddings == img_width * 2 + padding * 2
\* Calculate total grid size.
grid_width == img_width * 2 + padding * 3
grid_height == (img_height + label_height + padding) * 5 + title_height + padding

NoCanvas == [width |-> 0, height |-> 0]
\* Image.new('RGB', (grid_width, grid_height), 'white')
NewCanvas == [width |-> grid_width, height |-> grid_height]

\* y_pos = title_height; y_pos += label_height
FirstRowY == title_height + label_height
\* y_pos += img_height + label_height + padding
NextRowY(y) == y + img_height + label_height + padding

\* input_path / template_name and output_path / f'{stem}_no_bg.png'
input_file(template_name) == Join(<<INPUT>>, template_name)
output_file(template_name) == Join(<<OUTPUT>>, NoBgName(template_name.stem))

\* Faulty variant: only the original is tested for.
GridSkips_InputOnly(f, template_name) == ~Exists(f, input_file(template_name))
\* Faulty variant: the processed file is looked up under the original's name.
HtmlSkips_OriginalName(f, template_name) ==
    ~Exists(f, input_file(template_name)) \/ ~Exists(f, Join(<<OUTPUT>>, template_name))
\* The two skip tests of the grid loop, and the one of the HTML loop.
GridSkips(f, template_name) ==
    ~Exists(f, input_file(template_name)) \/ ~Exists(f, output_file(template_name))
HtmlSkips(f, template_name) ==
    ~Exists(f, input_file(template_name)) \/ ~Exists(f, output_file(template_name))

\* What one iteration draws: the two bordered thumbnail boxes and the label.
Row(template_name, y) ==
    [name |-> template_name,
     y_pos |-> y,
     box_top |-> y + padding,
     box_bottom |-> y + padding + img_height,
     before_left |-> padding,
     after_left |-> padding * 2 + img_width,
     label |-> Label(template_name),
     label_y |-> y + padding + img_height + label_offset]

\* create_comparison_grid up to the loop: canvas, fonts, title, headers.
grid_setup ==
    /\ program = "compare_images"
    /\ pc = "main"
    /\ canvas' = NewCanvas
    /\ font' \in {"arial.ttf", "default"}
    /\ y_pos' = FirstRowY
    /\ rows' = <<>>
    /\ template_idx' = 0
    /\ pc' = "grid_loop"
    /\ UNCHANGED <<program, fs, fs0, remVars, grid_file, html_content, html_file>>

\* One iteration of the loop over template_images.
grid_iteration ==
    /\ program = "compare_images"
    /\ pc = "grid_loop"
    /\ template_idx < NumTemplates
    /\ LET template_name == template_images[template_idx + 1]
       IN  IF GridSkips(fs, template_name)
           THEN UNCHANGED <<rows, y_pos>>
           ELSE /\ rows' = Append(rows, Row(template_name, y_pos))
                /\ y_pos' = NextRowY(y_pos)
    /\ template_idx' = template_idx + 1
    /\ UNCHANGED <<program, fs, fs0, pc, remVars, font, canvas, grid_file,
                   html_content, html_file>>

\* canvas.save(comparison_output, 'PNG')
grid_save ==
    /\ program = "compare_images"
    /\ pc = "grid_loop"
    /\ template_idx = NumTemplates
    /\ grid_file' = <<[canvas |-> canvas, rows |-> rows]>>
    /\ pc' = "html_setup"
    /\ UNCHANGED <<program, fs, fs0, remVars, font, canvas, y_pos, rows,
                   template_idx, html_content, html_file>>

\* base64.b64encode(img_data).decode('utf-8')
Base64(data) == <<"base64">> \o data

Element(tag, text) == [tag |-> tag, text |-> text]
HtmlHead == <<Element("head", <<"Before & After Comparison">>)>>
HtmlTail == <<Element("tail", <<>>)>>
\* The comparison-item block appended for one pair.
HtmlItem(f, template_name) ==
    << Element("item", <<>>),
       Element("title", Label(template_name)),
       Element("label", <<"BEFORE">>),
       Element("img", Base64(f[input_file(template_name)].data)),
       Element("label", <<"AFTER">>),
       Element("img", Base64(f[output_file(template_name)].data)),
       Element("end_item", <<>>) >>

\* create_html_comparison up to the loop: the document head and styles.
html_setup ==
    /\ program = "compare_images"
    /\ pc = "html_setup"
    /\ html_content' = HtmlHead
    /\ template_idx' = 0
    /\ pc' = "html_loop"
    /\ UNCHANGED <<program, fs, fs0, remVars, font, canvas, y_pos, rows,
                   grid_file, html_file>>

html_iteration ==
    /\ program = "compare_images"
    /\ pc = "html_loop"
    /\ template_idx < NumTemplates
    /\ LET template_name == template_images[template_idx + 1]
       IN  IF HtmlSkips(fs, template_name)
           THEN UNCHANGED html_content
           ELSE html_content' = html_content \o HtmlItem(fs, template_name)
    /\ template_idx' = template_idx + 1
    /\ UNCHANGED <<program, fs, fs0, pc, remVars, font, canvas, y_pos, rows,
                   grid_file, html_file>>

\* The closing tags, the write to html_output, and main's return.
html_save ==
    /\ program = "compare_images"
    /\ pc = "html_loop"
    /\ template_idx = NumTemplates
    /\ html_content' = html_content \o HtmlTail
    /\ html_file' = <<html_content'>>
    /\ pc' = "exit"
    /\ exit_code' = 0
    /\ UNCHANGED <<program, fs, fs0, args, uncaught, output_path, png_files,
                   idx, success_count, fail_count, session, attempted,
                   outcomes, reads, inferences, written, stdout_summary, font,
                   canvas, y_pos, rows, grid_file, template_idx>>

InitRemover ==
    /\ program = "remove_background"
    /\ fs \in RemoverFileSystems
    /\ fs0 = fs
    /\ args \in ArgSets
    /\ pc = "main"
    /\ exit_code = -1
    /\ uncaught = ""
    /\ output_path = <<>>
    /\ png_files = <<>>
    /\ idx = 0
    /\ success_count = 0
    /\ fail_count = 0
    /\ session = ""
    /\ attempted = <<>>
    /\ outcomes = <<>>
    /\ reads = {}
    /\ inferences = <<>>
    /\ written = <<>>
    /\ stdout_summary = <<>>
    /\ font = ""
    /\ canvas = NoCanvas
    /\ y_pos = 0
    /\ rows = <<>>
    /\ grid_file = <<>>
    /\ template_idx = 0
    /\ html_content = <<>>
    /\ html_file = <<>>

InitCompare ==
    /\ program = "compare_images"
    /\ fs \in CompareFileSystems
    /\ fs0 = fs
    /\ args = NoArgs
    /\ pc = "main"
    /\ exit_code = -1
    /\ uncaught = ""
    /\ output_path = <<>>
    /\ png_files = <<>>
    /\ idx = 0
    /\ success_count = 0
    /\ fail_count = 0
    /\ session = ""
    /\ attempted = <<>>
    /\ outcomes = <<>>
    /\ reads = {}
    /\ inferences = <<>>
    /\ written = <<>>
    /\ stdout_summary = <<>>
    /\ font = ""
    /\ canvas = NoCanvas
    /\ y_pos = 0
    /\ rows = <<>>
    /\ grid_file = <<>>
    /\ template_idx = 0
    /\ html_content = <<>>
    /\ html_file = <<>>

Init == InitRemover \/ InitCompare

Next ==
    \/ main
    \/ remove_background_from_file
    \/ folder_setup
    \/ folder_iteration
    \/ folder_summary
    \/ grid_setup
    \/ grid_iteration
    \/ grid_save
    \/ html_setup
    \/ html_iteration
    \/ html_save

Spec == Init /\ [][Next]_vars

\* Both tools are sequential programs: a run that can take a step takes it.
FairSpec == Spec /\ WF_vars(Next)

\* ================================================================ claims
Batch == program = "remove_background" /\ IsDir(fs0, args.input)
FileMode == program = "remove_background" /\ IsFile(fs0, args.input)
Failed(outs) == Cardinality({i \in 1..Len(outs) : outs[i] # "ok"})
SummaryPrinted == stdout_summary # <<>>

\* C1: in batch mode, at every point of the loop success_count + fail_count
\* is the number of files handled so far, with fail_count the number of
\* files that failed; the run ends with success_count = N - K and
\* fail_count = K, and the summary printed shows exactly these two values.
C1_BatchCounters ==
    /\ (program = "remove_background" /\ pc = "loop") =>
          /\ idx = Len(outcomes)
          /\ success_count + fail_count = idx
          /\ fail_count = Failed(outcomes)
    /\ (program = "remove_background" /\ pc = "exit" /\ session # "") =>
          /\ SummaryPrinted
          /\ Len(outcomes) = Len(png_files)
          /\ success_count = Len(png_files) - Failed(outcomes)
          /\ fail_count = Failed(outcomes)
          /\ stdout_summary =
                <<[success |-> Len(png_files) - Failed(outcomes),
                   failed |-> Failed(outcomes)]>>
    /\ SummaryPrinted => (pc = "exit" /\ session # "")

\* A batch of two files ended with one success and one failure, the write of
\* the first file having raised.
C1_Witness ==
    /\ SummaryPrinted
    /\ Len(png_files) = 2
    /\ Failed(outcomes) = 1
    /\ outcomes[1] = "write_raises"
    /\ stdout_summary[1] = [success |-> 1, failed |-> 1]

\* C2: in batch mode a failure on one file never aborts the batch: every
\* enumerated file is attempted exactly once, in enumeration order, whatever
\* the outcomes before it, and the loop always reaches the final summary.
C2_InLoop ==
    (program = "remove_background" /\ pc = "loop") =>
        /\ idx <= Len(png_files)
        /\ attempted = SubSeq(png_files, 1, idx)
C2_AtEnd ==
    (program = "remove_background" /\ pc = "exit" /\ session # "") =>
        /\ SummaryPrinted
        /\ attempted = png_files
        /\ \A f \in GlobPng(fs0, args.input) :
              Cardinality({i \in 1..Len(attempted) : attempted[i] = f}) = 1
C2_Step ==
    (program = "remove_background" /\ pc = "loop" /\ idx < Len(png_files)) =>
        /\ pc' = "loop"
        /\ attempted' = Append(attempted, png_files[idx + 1])
C2_NoAbort ==
    /\ [](C2_InLoop /\ C2_AtEnd)
    /\ [][C2_Step]_vars
    /\ ((program = "remove_background" /\ pc = "loop") ~> SummaryPrinted)

\* A batch reached its summary, its second file processed although
\* inference on the first had raised.
C2_Witness ==
    /\ SummaryPrinted
    /\ Len(png_files) = 2
    /\ attempted = png_files
    /\ outcomes[1] = "remove_raises"
    /\ outcomes[2] = "ok"

\* C3 (as claimed): main exits with status 1 exactly when the input path
\* does not exist or, in single-file mode, the extension is not .png; in
\* every other case (with a command line the parser accepts) it exits 0.
InputMissing == ~Exists(fs0, args.input)
InputNotPng == IsFile(fs0, args.input) /\ Lower(Suffix(args.input)) # ".png"
InputNeither ==
    Exists(fs0, args.input) /\ ~IsFile(fs0, args.input) /\ ~IsDir(fs0, args.input)
C3_ExitOneOnlyOnMissingOrNotPng ==
    (program = "remove_background" /\ pc = "exit" /\ args.model \in Choices) =>
        /\ exit_code \in {0, 1}
        /\ exit_code = 1 <=> (InputMissing \/ InputNotPng)

\* C3 (amended): main exits with status 2 when the parser rejects the model;
\* otherwise with status 1 exactly when the input path does not exist, or is
\* a file whose extension is not .png in any letter case, or exists and is
\* neither a file nor a directory, or (batch mode only) creating the output
\* folder or the model session raises; and with status 0 in every other case.
C3_ExitStatus ==
    (program = "remove_background" /\ pc = "exit") =>
        /\ exit_code \in {0, 1, 2}
        /\ exit_code = 2 <=> args.model \notin Choices
        /\ exit_code = 1 <=>
              /\ args.model \in Choices
              /\ InputMissing \/ InputNotPng \/ InputNeither \/ uncaught # ""
        /\ uncaught # "" => Batch

\* A run on an input that is neither file nor directory ended with status 1.
C3_Witness ==
    /\ program = "remove_background"
    /\ pc = "exit"
    /\ args.model \in Choices
    /\ InputNeither
    /\ exit_code = 1

\* C4 (as claimed): every output file written, in single-file mode and in
\* batch mode, is named <input stem>_no_bg.png.
C4_AllOutputsNamedNoBg ==
    \A i \in 1..Len(written) :
        written[i].dst[Len(written[i].dst)] = NoBgName(Stem(written[i].src))

\* C4 (amended): every output file written in batch mode, and in single-file
\* mode when -o is an existing directory, is <-o>/<input stem>_no_bg.png; in
\* single-file mode when -o is not an existing directory the output is
\* written to the -o path itself, whatever its name.
C4_OutputNames ==
    \A i \in 1..Len(written) :
        written[i].dst =
            IF Batch \/ IsDir(fs0, args.output)
            THEN Append(args.output,
                        [stem |-> written[i].src[Len(written[i].src)].stem
                                     \o <<"_no_bg">>,
                         ext |-> ".png"])
            ELSE args.output

\* A single-file run wrote its output under the name given with -o.
C4_Witness ==
    /\ FileMode
    /\ pc = "exit"
    /\ Len(written) = 1
    /\ written[1].dst = args.output
    /\ written[1].dst[Len(written[1].dst)] # NoBgName(Stem(written[1].src))

\* C5: no operation modifies an input image file: at the end of a run every
\* file that was read as an input holds the bytes it held at the start.
C5_InputsUnmodified ==
    (program = "remove_background" /\ pc = "exit") =>
        \A p \in reads : p \in DOMAIN fs /\ fs[p] = fs0[p]

\* C6: the model selected with -m is the model that performs inference on
\* every file processed, in single-file mode and in batch mode.
C6_SelectedModelRuns ==
    \A i \in 1..Len(inferences) : inferences[i].model = args.model

\* C7: the grid holds exactly one row per pair present in both folders, in
\* the order of the fixed list, stacked without gaps from the first row
\* position on; missing pairs are skipped and the grid file is still saved.
PairPresent(template_name) ==
    /\ <<INPUT, template_name>> \in DOMAIN fs0
    /\ <<OUTPUT, [stem |-> template_name.stem \o <<"_no_bg">>, ext |-> ".png"]>>
          \in DOMAIN fs0
PresentAmong(n) == SelectSeq(SubSeq(template_images, 1, n), PairPresent)
RowsAre(rs, names) ==
    /\ Len(rs) = Len(names)
    /\ \A j \in 1..Len(rs) :
          /\ rs[j].name = names[j]
          /\ rs[j].y_pos = 100 + 360 * (j - 1)
C7_GridRows ==
    /\ (program = "compare_images" /\ pc = "grid_loop") =>
          RowsAre(rows, PresentAmong(template_idx))
    /\ (program = "compare_images" /\ pc \in {"html_setup", "html_loop", "exit"}) =>
          /\ Len(grid_file) = 1
          /\ RowsAre(grid_file[1].rows, PresentAmong(5))
    /\ (program = "compare_images" /\ pc \in {"main", "grid_loop"}) =>
          grid_file = <<>>

\* The grid was saved with three rows, for the first, third and fifth pair.
C7_Witness ==
    /\ Len(grid_file) = 1
    /\ Len(grid_file[1].rows) = 3
    /\ grid_file[1].rows[1].name = template_images[1]
    /\ grid_file[1].rows[2].name = template_images[3]
    /\ grid_file[1].rows[3].name = template_images[5]
    /\ <<INPUT, template_images[2]>> \in DOMAIN fs0
    /\ <<OUTPUT, NoBgName(template_images[4].stem)>> \in DOMAIN fs0

\* C8: the HTML document written holds, for each pair present in both
\* folders and for no other, exactly one card, in the order of the fixed
\* list, with exactly one BEFORE-labelled and one AFTER-labelled image block
\* carrying a non-empty payload; a pair missing a file produces no card.
Tags(doc) == [i \in 1..Len(doc) |-> doc[i].tag]
Count(doc, el) == Cardinality({i \in 1..Len(doc) : doc[i] = el})
CardAt(doc, k) == SubSeq(doc, 2 + 7 * (k - 1), 8 + 7 * (k - 1))
CardFor(card, template_name) ==
    /\ Tags(card) = <<"item", "title", "label", "img", "label", "img", "end_item">>
    /\ card[2].text = Label(template_name)
    /\ card[3].text = <<"BEFORE">>
    /\ card[5].text = <<"AFTER">>
    /\ Count(card, [tag |-> "label", text |-> <<"BEFORE">>]) = 1
    /\ Count(card, [tag |-> "label", text |-> <<"AFTER">>]) = 1
    /\ card[4].text = <<"base64">> \o fs0[<<INPUT, template_name>>].data
    /\ card[6].text = <<"base64">> \o fs0[output_file(template_name)].data
    /\ Len(card[4].text) > 1 /\ Len(card[6].text) > 1
C8_HtmlCards ==
    /\ (program = "compare_images" /\ pc = "exit") =>
          /\ Len(html_file) = 1
          /\ LET doc == html_file[1]
                 present == PresentAmong(5)
             IN  /\ Len(doc) = 2 + 7 * Len(present)
                 /\ doc[1].tag = "head"
                 /\ doc[Len(doc)].tag = "tail"
                 /\ \A k \in 1..Len(present) : CardFor(CardAt(doc, k), present[k])
    /\ (program = "compare_images" /\ pc # "exit") => html_file = <<>>

\* The document was written with two cards while three pairs lacked a file.
C8_Witness ==
    /\ Len(html_file) = 1
    /\ Len(html_file[1]) = 2 + 7 * 2
    /\ Cardinality({i \in 1..5 : <<INPUT, template_images[i]>> \in DOMAIN fs0}) = 4
    /\ Cardinality({i \in 1..5 : output_file(template_images[i]) \in DOMAIN fs0}) = 3

\* C9 (as claimed): the grid canvas is exactly 680 pixels wide and 1880
\* pixels high, however many of the five pairs are present.
C9_CanvasIs680By1880 ==
    /\ (program = "compare_images" /\ pc # "main") =>
          canvas = [width |-> 680, height |-> 1880]
    /\ \A i \in 1..Len(grid_file) :
          grid_file[i].canvas = [width |-> 680, height |-> 1880]

\* C9 (amended): the grid canvas is exactly 660 pixels wide (2*300 + 3*20)
\* and 1880 pixels high ((300+40+20)*5 + 60 + 20), however many of the five
\* pairs are present.
C9_CanvasSize ==
    /\ (program = "compare_images" /\ pc # "main") =>
          canvas = [width |-> 660, height |-> 1880]
    /\ \A i \in 1..Len(grid_file) :
          grid_file[i].canvas = [width |-> 660, height |-> 1880]

\* The grid was saved at that size with two of the five pairs drawn.
C9_Witness ==
    /\ Len(grid_file) = 1
    /\ Len(grid_file[1].rows) = 2
    /\ grid_file[1].canvas.width = 660
    /\ grid_file[1].canvas.height = 1880

\* C10: every row drawn lies inside the canvas: its thumbnail box bottom
\* y_pos + padding + img_height and its label band bottom
\* y_pos + padding + img_height + label_height are at most the canvas height.
C10_RowsInsideCanvas ==
    \A j \in 1..Len(rows) :
        /\ rows[j].y_pos + padding + img_height <= canvas.height
        /\ rows[j].y_pos + padding + img_height + label_height <= canvas.height

====
